---- MODULE Spec2Model ----
(***************************************************************************)
(* Route resolution of the GSHealth routing service                        *)
(* (src/src/services/routing.test.js, lines 157-826: the routing module).  *)
(*                                                                         *)
(* One calculateRoute(start, end, options) call is followed from its entry *)
(* to the settling of its promise.  Every await of the code is a point at  *)
(* which the environment (the ORS endpoint, an OSRM server, a timer)       *)
(* decides what happens next; the code between two awaits is one action.   *)
(*                                                                         *)
(* SpecOverlap follows two calculateRoute calls issued by the              *)
(* AmbulanceRouting component (src/unnamed/part_001) together with a       *)
(* fetchMajorRoads call; SpecFacilities follows one findNearestFacilities  *)
(* call; SpecNumeric one call of a numeric function (the format helpers,   *)
(* calculateDistance, the metrics of createDirectRoute and of              *)
(* calculateORSRoute); SpecNearest one findNearestMajorRoad call;          *)
(* SpecRoads two fetchMajorRoads calls in detail; SpecMapView the loadData *)
(* effect of MapView (src/unnamed/part_003).                               *)
(***************************************************************************)
EXTENDS Integers, Sequences, FiniteSets

\* ------------------------------------------------------------------ bounds
\* Provider responses carry coordinates on the grid 0..MaxCoord x 0..MaxCoord
MaxCoord == 1
\* and at most MaxRouteLen of them.
MaxRouteLen == 2

\* OSRM_SERVERS holds two servers.
NumServers == 2

VARIABLES
    envKey,       \* process.env.VITE_ORS_API_KEY as it is now
    ORS_API_KEY,  \* the module constant, read once when the module is loaded
    pc,           \* where the call is: idle, ors_wait, osrm_fetch, osrm_json, resolved, rejected
    start,        \* the call's arguments
    end,
    options,
    server,       \* index into OSRM_SERVERS of the current loop iteration
    requests,     \* the requests issued so far, in order: 0 is ORS, i is OSRM server i
    inFlight,     \* the requests issued and not yet finished
    timers,       \* the abort timers that are armed (by OSRM server index)
    orsResp,      \* what the ORS endpoint answered
    osrmResp,     \* what each OSRM server answered
    result        \* the value the promise resolved with

\* The component that calls calculateRoute, and the road cache of the module.
VARIABLES
    selectedPoint,   \* props of AmbulanceRouting
    targetFacility,
    calls,           \* the calculateRoute calls of the component, by order of issue
    loading,         \* state of the component
    error,
    selectedRoute,
    routeDetails,
    roadsPc,         \* where the fetchMajorRoads call is: idle, fetch, text, json
    cachedRoadData   \* the module variable

\* The variables of the component and of the road cache.
overlapVars == <<selectedPoint, targetFacility, calls, loading, error,
                 selectedRoute, routeDetails, roadsPc, cachedRoadData>>

\* One findNearestFacilities(point, facilities, options) call.
VARIABLES
    point,            \* the arguments
    facilities,
    fnOptions,
    fnPc,             \* ready, returned
    results,          \* the array returned
    facilitiesAfter   \* the facilities argument as it is after the call

facilityVars == <<point, facilities, fnOptions, fnPc, results, facilitiesAfter>>

\* One call of a numeric function of the module.
VARIABLES
    arg,   \* the function called and its arguments
    ret,   \* what it returned
    done   \* it has returned

numericVars == <<arg, ret, done>>

\* One call of findNearestMajorRoad(point, initialRadius).
VARIABLES
    nmPoint,        \* the point: an array, or null
    currentRadius,  \* the local variable of the loop
    nmPc,           \* idle, loop, fetch, json, returned
    nmRequests,     \* the radius of every Overpass request issued, in order
    nmIterations,   \* how many times the loop body was entered
    nmResult        \* what the call returned

nearestVars == <<nmPoint, currentRadius, nmPc, nmRequests, nmIterations, nmResult>>

\* Calls of fetchMajorRoads(bounds).
VARIABLES
    roadCalls   \* per call: where it is, what it met, what it settled with

roadsVars == <<roadCalls>>

\* The MapView component and the runs of its loadData effect.
VARIABLES
    mounted,     \* the component is mounted
    state,       \* the reducer state: loading, error, facilities
    runs,        \* per run of loadData: where it is, its signal, what the fetch met
    started,     \* how many runs have begun
    dispatched   \* every action dispatched, in order, with the run that did it

mapVars == <<mounted, state, runs, started, dispatched>>

\* The variables outside the calculateRoute calls and findNearestFacilities.
laterVars == <<numericVars, nearestVars, roadsVars, mapVars>>

\* The variables that a step of the single call leaves alone.
otherVars == <<overlapVars, facilityVars, laterVars>>

\* The variables of the single call.
callVars == <<pc, start, end, options, server, requests, inFlight, timers,
              orsResp, osrmResp, result>>

vars == <<envKey, ORS_API_KEY, pc, start, end, options, server, requests,
          inFlight, timers, orsResp, osrmResp, result, otherVars>>

\* ------------------------------------------------------------- JS values
\* A coordinate component: a finite number, NaN (typeof 'number'), or a string.
Num(n) == [type |-> "number", finite |-> TRUE, v |-> n]
NaN == [type |-> "number", finite |-> FALSE, v |-> 0]
Str == [type |-> "string", finite |-> FALSE, v |-> 0]

\* A value passed as start or end: null, or an array of components.
JsNull == [kind |-> "null", elems |-> <<>>]
Arr(s) == [kind |-> "array", elems |-> s]

\* The values the model passes as start and as end: the two points of the
\* tests (as grid points), pairs holding NaN, and invalid values: null and a
\* one-element array as in the tests, a non-number component, a third component.
StartInputs ==
    { Arr(<<Num(0), Num(1)>>), Arr(<<NaN, Num(0)>>), JsNull, Arr(<<Num(0), Str>>) }
EndInputs ==
    { Arr(<<Num(1), Num(0)>>), Arr(<<Num(1), NaN>>), JsNull, Arr(<<Num(1)>>),
      Arr(<<Num(0), Num(1), Num(1)>>) }

\* The values passed as options: omitted, null, or an object; of an object the
\* model keeps isMountainous and whether alternatives (or steps, annotations) is null.
OptUndefined == [kind |-> "undefined", isMountainous |-> FALSE, flagNull |-> FALSE]
OptNull == [kind |-> "null", isMountainous |-> FALSE, flagNull |-> FALSE]
OptObj(m, f) == [kind |-> "object", isMountainous |-> m, flagNull |-> f]
OptionInputs == { OptUndefined, OptNull, OptObj(TRUE, FALSE), OptObj(FALSE, TRUE) }

\* The values of the environment variable VITE_ORS_API_KEY.
KeyValues == { "undefined", "your_api_key_here", "5b3ce3597851110001cf6248" }

\* Coordinates of a provider response: [lon, lat] pairs.
GridLonLat == { <<Num(a), Num(b)>> : a \in 0..MaxCoord, b \in 0..MaxCoord }
RespCoords == UNION { [1..n -> GridLonLat] : n \in 0..MaxRouteLen }

\* What the ORS endpoint can answer to axios.post.
ORSNoResp == [status |-> "none", coords |-> <<>>]
\* kind: the promise rejects (network error, HTTP error), or resolves with data
\* the code cannot read (a TypeError in its try), or with a well-formed route.
ORSResponses ==
    { [kind |-> s, coords |-> <<>>] : s \in {"rejected", "malformed"} }
    \cup { [kind |-> "ok", coords |-> c] : c \in RespCoords }
\* What the model keeps of an answer: failed, or ok with its coordinates.
ORSOutcome(resp) ==
    IF resp.kind = "ok" THEN [status |-> "ok", coords |-> resp.coords]
    ELSE [status |-> "failed", coords |-> <<>>]

\* What an OSRM server can answer.
OSRMNoResp == [status |-> "none", coords |-> <<>>]
OSRMResp(s) == [status |-> s, coords |-> <<>>]
\* The bodies response.json() can deliver.
\* kind: json() rejects, or delivers a body without routes, or one whose
\* routes[0] the code cannot read (a TypeError in its try), or a well-formed one.
JsonBodies ==
    { [kind |-> s, coords |-> <<>>] : s \in {"jsonRejected", "noRoutes", "malformed"} }
    \cup { [kind |-> "ok", coords |-> c] : c \in RespCoords }
OSRMOutcome(body) ==
    IF body.kind = "ok" THEN [status |-> "ok", coords |-> body.coords]
    ELSE OSRMResp("failed")

\* A result object.  routingMethod "none" and hasRoute FALSE stand for absent fields.
NoResult == [success |-> FALSE, hasRoute |-> FALSE, route |-> <<>>, routingMethod |-> "none",
             directRoute |-> FALSE, error |-> FALSE, isMountainous |-> FALSE]

\* ------------------------------------------------------- pure functions

\* getApiKey, ORS_API_KEY: evaluated once, at module load.
getApiKey(env) == env

\* Mutation of validateApiKey: the placeholder check is dropped.
validateApiKeyNoPlaceholder == ORS_API_KEY # "undefined" /\ ORS_API_KEY # ""

\* validateApiKey
validateApiKey ==
    IF ORS_API_KEY = "undefined" \/ ORS_API_KEY = "" THEN FALSE
    ELSE IF ORS_API_KEY = "your_api_key_here" THEN FALSE
    ELSE TRUE

\* ([lon, lat]) => [lat, lon]
SwapPair(p) == <<p[2], p[1]>>
SwapAll(cs) == [k \in 1..Len(cs) |-> SwapPair(cs[k])]

\* The test of one argument in the validation of calculateRoute and createDirectRoute.
NotAPair(c) ==
    \/ c.kind # "array"
    \/ Len(c.elems) # 2
    \/ c.elems[1].type # "number"
    \/ c.elems[2].type # "number"

\* NotAPair without the length test.
NotAPairNoLength(c) ==
    \/ c.kind # "array"
    \/ Len(c.elems) < 2
    \/ c.elems[1].type # "number"
    \/ c.elems[2].type # "number"

\* Mutation of InvalidInput: start.length !== 2 || end.length !== 2 is dropped.
InvalidInputNoLength(s, e) == NotAPairNoLength(s) \/ NotAPairNoLength(e)

\* Mutation of InvalidInput: only start is validated.
InvalidInputStartOnly(s, e) == NotAPair(s)

\* calculateRoute, "Input validation"
InvalidInput(s, e) == NotAPair(s) \/ NotAPair(e)

\* Mutation of DirectInvalid: createDirectRoute also refuses non-finite numbers.
DirectInvalidFinite(s, e) ==
    \/ NotAPair(s) \/ NotAPair(e)
    \/ \E k \in 1..2 : ~s.elems[k].finite \/ ~e.elems[k].finite

\* createDirectRoute, "Handle invalid coordinates"
DirectInvalid(s, e) == NotAPair(s) \/ NotAPair(e)

\* Mutation of createDirectRoute: the route is built as [end, start].
createDirectRouteReversed(s, e, m) ==
    IF DirectInvalid(s, e)
    THEN [NoResult EXCEPT !.error = TRUE, !.routingMethod = "direct"]
    ELSE [success |-> TRUE, hasRoute |-> TRUE, route |-> <<e.elems, s.elems>>,
          routingMethod |-> "direct", directRoute |-> TRUE, error |-> FALSE,
          isMountainous |-> m]

\* Mutation of createDirectRoute: the end point is left out of the route.
createDirectRouteStartOnly(s, e, m) ==
    IF DirectInvalid(s, e)
    THEN [NoResult EXCEPT !.error = TRUE, !.routingMethod = "direct"]
    ELSE [success |-> TRUE, hasRoute |-> TRUE, route |-> <<s.elems>>,
          routingMethod |-> "direct", directRoute |-> TRUE, error |-> FALSE,
          isMountainous |-> m]

\* createDirectRoute(start, end, isMountainous)
createDirectRoute(s, e, m) ==
    IF DirectInvalid(s, e)
    THEN [NoResult EXCEPT !.error = TRUE, !.routingMethod = "direct"]
    ELSE [success |-> TRUE, hasRoute |-> TRUE, route |-> <<s.elems, e.elems>>,
          routingMethod |-> "direct", directRoute |-> TRUE, error |-> FALSE,
          isMountainous |-> m]

\* calculateRoute(start, end, options = {})
DefaultOptions(o) == IF o.kind = "undefined" THEN OptObj(FALSE, FALSE) ELSE o

\* calculateORSRoute: destructuring options, inside its try
ORSSetupThrows(o) == o.kind = "null"

\* calculateORSRoute: the value it returns for a response
calculateORSRoute(resp) ==
    IF resp.kind = "ok"
    THEN [NoResult EXCEPT !.success = TRUE, !.hasRoute = TRUE, !.route = SwapAll(resp.coords)]
    ELSE [NoResult EXCEPT !.error = TRUE]

\* Mutation of ORSAccepted: a misspelt field is read, which is always undefined.
ORSAcceptedNever(r) == FALSE

\* calculateRoute: if (orsResult.success)
ORSAccepted(r) == r.success

\* calculateOSRMRoute: destructuring options and building the query, outside any try
OSRMSetupThrows(o) == o.kind = "null" \/ o.flagNull

\* Mutation of OSRMUsable: the test of result.routes?.length is inverted.
OSRMUsableInverted(body) == body.kind = "noRoutes"

\* calculateOSRMRoute: a parsed body passes !result.routes?.length and the mapping
OSRMUsable(body) == body.kind = "ok"

\* calculateOSRMRoute: the value returned for a usable body
OSRMResult(body) ==
    [NoResult EXCEPT !.success = TRUE, !.hasRoute = TRUE, !.route = SwapAll(body.coords)]

\* Mutations of NextServer: the same server is tried again; a server is skipped.
SameServer(i) == i
SkipServer(i) == i + 2

\* for (const server of OSRM_SERVERS): the server after server i
NextServer(i) == i + 1

\* ------------------------------------------------------------- control

\* calculateRoute, the outer catch: createDirectRoute(start, end, options.isMountainous)
OuterCatch(s, e, o) ==
    IF o.kind = "null"
    THEN pc' = "rejected" /\ result' = NoResult
    ELSE pc' = "resolved" /\ result' = createDirectRoute(s, e, o.isMountainous)

\* calculateRoute, "fall back to direct route"
DirectFallback(s, e, o) ==
    IF o.kind = "null"
    THEN OuterCatch(s, e, o)
    ELSE /\ pc' = "resolved"
         /\ result' = [createDirectRoute(s, e, o.isMountainous) EXCEPT !.routingMethod = "direct"]

\* calculateOSRMRoute: the loop reaches server i, with resp the answers and
\* tms the timers so far; past the last server it returns success false and
\* calculateRoute falls back.
TryServer(i, s, e, o, resp, tms) ==
    IF i <= NumServers
    THEN /\ pc' = "osrm_fetch"
         /\ server' = i
         /\ timers' = tms \cup {i}
         /\ inFlight' = {i}
         /\ requests' = Append(requests, i)
         /\ osrmResp' = [resp EXCEPT ![i] = OSRMResp("pending")]
         /\ result' = result
    ELSE /\ server' = server
         /\ timers' = tms
         /\ inFlight' = {}
         /\ requests' = requests
         /\ osrmResp' = resp
         /\ DirectFallback(s, e, o)

\* calculateRoute, "Try OSRM as a fallback"
EnterOSRM(s, e, o) ==
    IF OSRMSetupThrows(o)
    THEN /\ UNCHANGED <<server, timers, requests, osrmResp>>
         /\ inFlight' = {}
         /\ DirectFallback(s, e, o)
    ELSE TryServer(1, s, e, o, osrmResp, timers)

\* ------------------------------------------------------- the component

\* The calls that the model follows: a first request and a second one.
CallIds == {1, 2}

\* The facilities of the list; NoFacility stands for null.
NoFacility == [id |-> "none", lat |-> 0, lng |-> 0]
Facilities == { [id |-> "A", lat |-> 1, lng |-> 0], [id |-> "B", lat |-> 1, lng |-> 1] }

\* The point selected on the map, when one is.
MapPoint == Arr(<<Num(0), Num(1)>>)

\* [facility.lat, facility.lng]
FacilityLatLng(f) == Arr(<<Num(f.lat), Num(f.lng)>>)

\* The coordinates of the provider responses sent to the component's calls.
RouteA == <<<<Num(1), Num(0)>>, <<Num(0), Num(1)>>>>
RouteB == <<<<Num(1), Num(0)>>, <<Num(1), Num(1)>>>>
CallORSResponses ==
    { [kind |-> "rejected", coords |-> <<>>] }
    \cup { [kind |-> "ok", coords |-> c] : c \in {RouteA, RouteB} }
CallJsonBodies ==
    { [kind |-> "noRoutes", coords |-> <<>>] }
    \cup { [kind |-> "ok", coords |-> c] : c \in {RouteA, RouteB} }

\* The local state of a calculateRoute call that has not been made.
NoCall ==
    [pc |-> "idle", start |-> JsNull, end |-> JsNull, options |-> OptUndefined,
     facility |-> NoFacility, server |-> 0, timers |-> {},
     orsResp |-> ORSNoResp, osrmResp |-> [i \in 1..NumServers |-> OSRMNoResp],
     result |-> NoResult]

\* useState(null) of selectedRoute and of routeDetails
NoRoute == [set |-> FALSE, data |-> NoResult]
NoDetails == [set |-> FALSE, facility |-> NoFacility]

\* ------------------------------------------------ findNearestFacilities

\* The longest facilities array passed to findNearestFacilities.
MaxFacilities == 3

\* A property that is absent (undefined), or present with value n.
Undef == [def |-> FALSE, v |-> 0]
Given(n) == [def |-> TRUE, v |-> n]

\* maxDistance = 20, limit = 10
DefaultMaxDistance == 20
DefaultLimit == 10

\* Positions lie on one meridian, where the haversine formula reduces to
\* R * |lat2 - lat1| (in radians); lat counts steps of KmPerStep km.
KmPerStep == 5

\* The facility objects: on both sides of the point, at equal distances, at
\* the default radius and beyond it, of two types, with emergency true, false
\* or absent and with or without a rating; none has a distance property.
Facility(i, la, t, r, em) ==
    [id |-> i, lat |-> la, lng |-> 0, type |-> t, rating |-> r, emergency |-> em,
     distance |-> Undef]
FacilityObjects ==
    { Facility(1, 1, "hospital", Given(3), "true"),
      Facility(2, -1, "clinic", Undef, "missing"),
      Facility(3, 2, "hospital", Given(5), "false"),
      Facility(4, 4, "hospital", Given(4), "true"),
      Facility(5, 5, "clinic", Given(4), "false") }

\* The arrays of distinct facility objects, of length up to MaxFacilities.
FacilityLists ==
    UNION { { fs \in [1..n -> FacilityObjects] :
                \A j, k \in 1..n : fs[j] = fs[k] => j = k } : n \in 0..MaxFacilities }

\* The points: [lat, lng].
PointInputs == { <<0, 0>>, <<1, 0>> }

\* The options: each property absent or given; {} is NoOptions.
NoOptions ==
    [maxDistance |-> Undef, limit |-> Undef, filterByType |-> "null", sortBy |-> "undefined"]
FacilityOptionInputs ==
    [ maxDistance : {Undef, Given(10)},
      limit : {Undef, Given(1), Given(2)},
      filterByType : {"null", "hospital", "clinic"},
      sortBy : {"undefined", "distance", "rating", "emergency", "name"} ]

Abs(n) == IF n < 0 THEN -n ELSE n

\* calculateDistance(lat1, lon1, lat2, lon2), for lon1 = lon2
calculateDistance(lat1, lon1, lat2, lon2) == KmPerStep * Abs(lat2 - lat1)

\* ({...facility, distance: calculateDistance(point[0], point[1], facility.lat, facility.lng)})
WithDistance(p, f) ==
    [f EXCEPT !.distance = Given(calculateDistance(p[1], p[2], f.lat, f.lng))]

\* Mutation of WithinRadius: the radius filter lets everything through.
WithinRadiusAlways(d, maxDistance) == TRUE

\* f.distance <= maxDistance
WithinRadius(d, maxDistance) == d <= maxDistance

\* Mutation of CompareDistance: (a, b) => b.distance - a.distance
CompareDistanceDescending(a, b) == b.distance.v - a.distance.v

\* (a, b) => a.distance - b.distance
CompareDistance(a, b) == a.distance.v - b.distance.v

\* f.rating || 0
RatingOrZero(f) == IF f.rating.def THEN f.rating.v ELSE 0

\* (a, b) => (b.rating || 0) - (a.rating || 0)
CompareRating(a, b) == RatingOrZero(b) - RatingOrZero(a)

\* The comparator of case 'emergency'
CompareEmergency(a, b) ==
    IF a.emergency = b.emergency THEN a.distance.v - b.distance.v
    ELSE IF b.emergency = "true" THEN 1 ELSE -1

\* The comparefn that the switch passes to sort for sortBy.
Compare(sortBy, a, b) ==
    CASE sortBy = "distance" -> CompareDistance(a, b)
      [] sortBy = "rating" -> CompareRating(a, b)
      [] OTHER -> CompareEmergency(a, b)

\* Array.prototype.sort: the comparefn of sortBy is a consistent comparator
\* for the elements.
ConsistentComparator(list, sortBy) ==
    LET S == { list[k] : k \in 1..Len(list) }
        cmp(a, b) == Compare(sortBy, a, b) IN
    /\ \A a \in S : cmp(a, a) = 0
    /\ \A a, b \in S : cmp(a, b) = 0 => cmp(b, a) = 0
    /\ \A a, b, c \in S :
          /\ (cmp(a, b) = 0 /\ cmp(b, c) = 0) => cmp(a, c) = 0
          /\ (cmp(a, b) < 0 /\ cmp(b, c) < 0) => cmp(a, c) < 0
          /\ (cmp(a, b) > 0 /\ cmp(b, c) > 0) => cmp(a, c) > 0

\* The rearrangements of the indices of list.
IndexPermutations(list) ==
    { pi \in [1..Len(list) -> 1..Len(list)] : \A j, k \in 1..Len(list) : pi[j] = pi[k] => j = k }

\* Mutation of TieOrder: elements that compare equal come out in any order.
TieOrderAny(i, j) == TRUE

\* Array.prototype.sort is stable: of two elements that compare equal, the
\* one at the lower index i stays before the one at index j.
TieOrder(i, j) == i < j

\* Array.prototype.sort(comparefn): the arrays it can leave.  With a consistent
\* comparator that is the stably sorted one; otherwise the order is
\* implementation-defined.
ArraySort(list, sortBy) ==
    LET cmp(a, b) == Compare(sortBy, a, b) IN
    IF ConsistentComparator(list, sortBy)
    THEN { [k \in 1..Len(list) |-> list[pi[k]]] :
             pi \in { q \in IndexPermutations(list) :
                        \A j, k \in 1..Len(list) :
                           j < k => \/ cmp(list[q[j]], list[q[k]]) < 0
                                    \/ /\ cmp(list[q[j]], list[q[k]]) = 0
                                       /\ TieOrder(q[j], q[k]) } }
    ELSE { [k \in 1..Len(list) |-> list[pi[k]]] : pi \in IndexPermutations(list) }

\* array.slice(0, limit), limit >= 0
Slice(list, limit) == SubSeq(list, 1, IF limit < Len(list) THEN limit ELSE Len(list))

\* The destructuring defaults.
MaxDistanceOf(o) == IF o.maxDistance.def THEN o.maxDistance.v ELSE DefaultMaxDistance
LimitOf(o) == IF o.limit.def THEN o.limit.v ELSE DefaultLimit
SortByOf(o) == IF o.sortBy = "undefined" THEN "distance" ELSE o.sortBy

\* findNearestFacilities(point, facilities, options): the arrays it can return.
findNearestFacilities(p, fs, o) ==
    LET mapped == [k \in 1..Len(fs) |-> WithDistance(p, fs[k])]
        inRadius == SelectSeq(mapped, LAMBDA f : WithinRadius(f.distance.v, MaxDistanceOf(o)))
        typed == IF o.filterByType # "null"
                 THEN SelectSeq(inRadius, LAMBDA f : f.type = o.filterByType)
                 ELSE inRadius
        sorted == IF SortByOf(o) \in {"distance", "rating", "emergency"}
                  THEN ArraySort(typed, SortByOf(o))
                  ELSE {typed}
    IN { Slice(s, LimitOf(o)) : s \in sorted }

\* Mutation of InputAfterCall: the distance is written into the facility objects.
InputAfterCallAnnotated(p, fs) == [k \in 1..Len(fs) |-> WithDistance(p, fs[k])]

\* The facilities argument after the call: map and the spread build new
\* objects in a new array, and filter, sort and slice act on that array.
InputAfterCall(p, fs) == fs

\* ------------------------------------------------------------ road data

\* cachedRoadData: null, or a GeoJSON FeatureCollection.
NoRoadData == [type |-> "null", features |-> <<>>]
FeatureCollection(fs) == [type |-> "FeatureCollection", features |-> fs]

\* The elements of an Overpass answer: nodes and ways.  A way may lack its
\* tags; an element may be null (malformed answer).
OSMNode(id, lon, lat) ==
    [type |-> "node", id |-> id, lon |-> lon, lat |-> lat, nodes |-> <<>>,
     tags |-> FALSE, highway |-> ""]
OSMWay(id, nodes, tags, highway) ==
    [type |-> "way", id |-> id, lon |-> 0, lat |-> 0, nodes |-> nodes,
     tags |-> tags, highway |-> highway]
OSMNull ==
    [type |-> "null", id |-> 0, lon |-> 0, lat |-> 0, nodes |-> <<>>,
     tags |-> FALSE, highway |-> ""]

\* Answers: a secondary road listed before a trunk road; nodes only; a way
\* with one known node; a way without tags; a list holding null.
TwoRoads ==
    << OSMNode(1, 0, 0), OSMNode(2, 1, 0), OSMNode(3, 1, 1),
       OSMWay(10, <<1, 2>>, TRUE, "secondary"), OSMWay(11, <<2, 3, 4>>, TRUE, "trunk") >>
NodesOnly == << OSMNode(1, 0, 0), OSMNode(2, 1, 0) >>
ShortWay == << OSMNode(1, 0, 0), OSMWay(12, <<1, 5>>, TRUE, "primary") >>
UntaggedWay == << OSMNode(1, 0, 0), OSMNode(2, 1, 0), OSMWay(13, <<1, 2>>, FALSE, "") >>
Malformed == << OSMNode(1, 0, 0), OSMNull >>

\* data of response.json(): elements absent, or a list.
RoadData(has, es) == [hasElements |-> has, elements |-> es]
RoadAnswers ==
    { RoadData(FALSE, <<>>) }
    \cup { RoadData(TRUE, es) : es \in {<<>>, TwoRoads, NodesOnly, ShortWay, UntaggedWay, Malformed} }

\* element.type of null throws.
ConversionThrows(es) == \E i \in 1..Len(es) : es[i].type = "null"

\* nodes.get(nodeId): [lon, lat] of the last node element with that id.
NodeKnown(es, id) == \E i \in 1..Len(es) : es[i].type = "node" /\ es[i].id = id
NodeCoord(es, id) ==
    LET i == CHOOSE i \in 1..Len(es) :
                 /\ es[i].type = "node" /\ es[i].id = id
                 /\ \A j \in (i + 1)..Len(es) : ~(es[j].type = "node" /\ es[j].id = id)
    IN <<es[i].lon, es[i].lat>>

\* element.nodes.map(nodeId => nodes.get(nodeId)).filter(coord => coord !== undefined)
RECURSIVE WayCoordinates(_, _)
WayCoordinates(es, ids) ==
    IF ids = <<>> THEN <<>>
    ELSE (IF NodeKnown(es, Head(ids)) THEN <<NodeCoord(es, Head(ids))>> ELSE <<>>)
         \o WayCoordinates(es, Tail(ids))

\* importance: trunk 1, primary 2, secondary 3, tertiary 4, else 5
Importance(roadType) ==
    CASE roadType = "trunk" -> 1
      [] roadType = "primary" -> 2
      [] roadType = "secondary" -> 3
      [] roadType = "tertiary" -> 4
      [] OTHER -> 5

\* The features pushed, in the order of the elements: one for every way with
\* tags and at least two known nodes.
RECURSIVE FeaturesFrom(_, _)
FeaturesFrom(es, k) ==
    IF k > Len(es) THEN <<>>
    ELSE LET el == es[k]
             coordinates == WayCoordinates(es, el.nodes)
         IN (IF el.type = "way" /\ el.tags /\ Len(coordinates) >= 2
             THEN << [id |-> el.id, highway |-> el.highway,
                      importance |-> Importance(el.highway),
                      coordinates |-> coordinates] >>
             ELSE <<>>)
            \o FeaturesFrom(es, k + 1)

\* features.sort((a, b) => a.properties.importance - b.properties.importance):
\* a stable sort by importance.
RECURSIVE InsertByImportance(_, _)
InsertByImportance(f, fs) ==
    IF fs = <<>> THEN <<f>>
    ELSE IF f.importance < Head(fs).importance THEN <<f>> \o fs
    ELSE <<Head(fs)>> \o InsertByImportance(f, Tail(fs))
RECURSIVE SortByImportance(_)
SortByImportance(fs) ==
    IF fs = <<>> THEN <<>>
    ELSE InsertByImportance(fs[Len(fs)], SortByImportance(SubSeq(fs, 1, Len(fs) - 1)))

\* The geojson built from the elements of an answer.
OSMToGeoJSON(es) == FeatureCollection(SortByImportance(FeaturesFrom(es, 1)))

\* What a fetchMajorRoads call has settled with.
RoadsReturn(rejected, value) == [settled |-> TRUE, rejected |-> rejected, value |-> value]
NotReturned == [settled |-> FALSE, rejected |-> FALSE, value |-> NoRoadData]

\* Mutation of RoadsCatch: the catch throws the error on.
RoadsCatchRethrows == RoadsReturn(TRUE, NoRoadData)

\* catch (error): return { type: 'FeatureCollection', features: [] }
RoadsCatch == RoadsReturn(FALSE, FeatureCollection(<<>>))

\* cachedRoadData after a fetch that failed or brought no elements: no
\* assignment on those paths.
CacheAfterFailure(d) == d

\* ------------------------------------------------------ numeric functions

\* A rational number num/den in lowest terms, den > 0.
RECURSIVE GCD(_, _)
GCD(a, b) == IF b = 0 THEN a ELSE GCD(b, a % b)
Rat(n, d) ==
    LET g == GCD(IF n < 0 THEN -n ELSE n, d) IN
    IF n = 0 THEN [num |-> 0, den |-> 1] ELSE [num |-> n \div g, den |-> d \div g]

\* x / k and x * k for a rational x and an integer k > 0.
RatDiv(x, k) == LET g == GCD(IF x.num < 0 THEN -x.num ELSE x.num, k) IN
                IF x.num = 0 THEN x ELSE Rat(x.num \div g, x.den * (k \div g))
RatMul(x, k) == LET g == GCD(k, x.den) IN Rat(x.num * (k \div g), x.den \div g)

\* Angles and the values of sin and cos are numbers with six decimal places,
\* held as integers (millionths); degrees have four decimal places, held as
\* integers (ten-thousandths).  The products stay below 2^31.

\* a * b for two numbers with six decimal places, 0 <= a, b.
Mul6(a, b) ==
    LET ah == a \div 1000  al == a % 1000
        bh == b \div 1000  bl == b % 1000
    IN ah * bh + (ah * bl + al * bh + (al * bl) \div 1000) \div 1000

\* degrees * Math.PI / 180: radians of an angle given in degrees.
toRad(x) ==
    LET m == Abs(x)
        r == (m \div 10000) * 17453 + ((m % 10000) * 17453) \div 10000
    IN IF x < 0 THEN -r ELSE r

\* x / 2, rounded towards zero.
Half(x) == IF x < 0 THEN -((-x) \div 2) ELSE x \div 2

\* Math.sin(x): x - x^3/6 + x^5/120, odd in x.
Sin6(x) ==
    LET m == Abs(x)
        m2 == Mul6(m, m)
        m3 == Mul6(m2, m)
        m5 == Mul6(m3, m2)
        v == m - m3 \div 6 + m5 \div 120
    IN IF x < 0 THEN -v ELSE v

\* Math.cos(x): 1 - x^2/2 + x^4/24 - x^6/720, even in x.
Cos6(x) ==
    LET m == Abs(x)
        m2 == Mul6(m, m)
        m4 == Mul6(m2, m2)
        m6 == Mul6(m4, m2)
    IN 1000000 - m2 \div 2 + m4 \div 24 - m6 \div 720

\* Math.sqrt(n): the largest y with y * y <= n, for n < 46340 * 46340.
RECURSIVE SqrtBetween(_, _, _)
SqrtBetween(n, lo, hi) ==
    IF hi - lo <= 1 THEN lo
    ELSE LET mid == (lo + hi) \div 2 IN
         IF mid * mid <= n THEN SqrtBetween(n, mid, hi) ELSE SqrtBetween(n, lo, mid)
Sqrt(n) == SqrtBetween(n, 0, 46340)

\* Math.atan2(Math.sqrt(a), Math.sqrt(1 - a)), which is asin(sqrt(a)):
\* y + y^3/6 for y = sqrt(a); a has twelve decimal places, y six.
Atan2Sqrt(a) ==
    LET y == Sqrt(a) IN y + Mul6(Mul6(y, y), y) \div 6

\* Mutation of CentralAngle: the factor 2 is left out.
CentralAngleNotDoubled(a) == Atan2Sqrt(a)

\* const c = 2 * Math.atan2(Math.sqrt(a), Math.sqrt(1-a))
CentralAngle(a) == 2 * Atan2Sqrt(a)

\* const R = 6371
EarthRadiusKm == 6371

\* The haversine formula of calculateDistance (routing and localRouting), for
\* points given in ten-thousandths of a degree and less than 5 degrees apart;
\* the result is in metres.
haversine(lat1, lon1, lat2, lon2) ==
    LET dLat == toRad(lat2 - lat1)
        dLon == toRad(lon2 - lon1)
        sLat == Sin6(Half(dLat))
        sLon == Sin6(Half(dLon))
        a == sLat * sLat
             + Mul6(Mul6(Cos6(toRad(lat1)), Cos6(toRad(lat2))), sLon * sLon)
    IN (EarthRadiusKm * CentralAngle(a)) \div 1000

\* Mutation of fromORSFormat: the array is returned as it is.
fromORSFormatUnchanged(coords) == coords

\* toORSFormat(coords): [coords[1], coords[0]]
toORSFormat(coords) == <<coords[2], coords[1]>>

\* fromORSFormat(coords): [coords[1], coords[0]]
fromORSFormat(coords) == <<coords[2], coords[1]>>

\* Mutation of ORSDistance: the segment distance is returned as it is.
ORSDistanceNotDivided(m) == Rat(m, 1)

\* calculateORSRoute: distance: properties.segments[0].distance / 1000
ORSDistance(m) == Rat(m, 1000)

\* calculateORSRoute: duration: properties.segments[0].duration
ORSDuration(sec) == Rat(sec, 1)

\* Mutation of avgSpeed: the two speeds are exchanged.
avgSpeedExchanged(isMountainous) == IF isMountainous THEN 30 ELSE 20

\* const avgSpeed = isMountainous ? 20 : 30
avgSpeed(isMountainous) == IF isMountainous THEN 20 ELSE 30

\* createDirectRoute: distance (km) and duration = (distance / avgSpeed) * 3600
DirectDistance(s, e) == Rat(haversine(s[1], s[2], e[1], e[2]), 1000)
DirectDuration(distance, isMountainous) ==
    RatMul(RatDiv(distance, avgSpeed(isMountainous)), 3600)

\* The points, as [lat, lon] in ten-thousandths of a degree: Shimla, Manali,
\* Hospital A and Hospital C of the tests, and a point south-west of Shimla.
Shimla == <<311048, 771734>>
Manali == <<322396, 771887>>
NumericPoints == { Shimla, Manali, <<311050, 771736>>, <<311100, 771800>>, <<300000, 760000>> }

\* ORS response coordinates: [lon, lat] or, with elevation, [lon, lat, ele].
ORSCoordinateLists ==
    { <<<<771734, 311048>>, <<771887, 322396>>>>,
      <<<<771734, 311048, 2206>>, <<771800, 311100, 2150>>, <<771887, 322396, 2050>>>>,
      <<>> }

\* The calls: the function and its arguments.
NumericArg(f, a, b, m, cs, sd, st) ==
    [fn |-> f, a |-> a, b |-> b, isMountainous |-> m, coords |-> cs,
     segDistance |-> sd, segDuration |-> st]
NumericCalls ==
    { NumericArg("calculateDistance", a, b, FALSE, <<>>, 0, 0) :
         a \in NumericPoints, b \in NumericPoints }
    \cup { NumericArg("createDirectRoute", a, b, m, <<>>, 0, 0) :
             a \in NumericPoints, b \in NumericPoints, m \in BOOLEAN }
    \cup { NumericArg("formats", a, a, FALSE, <<>>, 0, 0) : a \in NumericPoints }
    \cup { NumericArg("calculateORSRoute", Shimla, Manali, FALSE, cs, sd, st) :
             cs \in ORSCoordinateLists, sd \in {0, 1500, 126192, 245310},
             st \in {0, 90, 10800} }

\* Nothing returned.
NoRet ==
    [route |-> <<>>, distance |-> Rat(0, 1), duration |-> Rat(0, 1),
     metres |-> 0, ors |-> <<>>, back |-> <<>>]

\* ------------------------------------------------------------- actions

\* No calculateRoute call has been made.
CallInit ==
    /\ pc = "idle"
    /\ start = JsNull
    /\ end = JsNull
    /\ options = OptUndefined
    /\ server = 0
    /\ requests = <<>>
    /\ inFlight = {}
    /\ timers = {}
    /\ orsResp = ORSNoResp
    /\ osrmResp = [i \in 1..NumServers |-> OSRMNoResp]
    /\ result = NoResult

\* The component is mounted and the road cache is empty.
ComponentInit ==
    /\ selectedPoint = JsNull
    /\ targetFacility = NoFacility
    /\ calls = [k \in CallIds |-> NoCall]
    /\ loading = FALSE
    /\ error = "null"
    /\ selectedRoute = NoRoute
    /\ routeDetails = NoDetails
    /\ roadsPc = "idle"
    /\ cachedRoadData = NoRoadData

\* No findNearestFacilities call is followed.
FacilitiesIdle ==
    /\ point = <<0, 0>>
    /\ facilities = <<>>
    /\ fnOptions = NoOptions
    /\ fnPc = "idle"
    /\ results = <<>>
    /\ facilitiesAfter = <<>>

\* No findNearestMajorRoad call is followed.
NearestIdle ==
    /\ nmPoint = JsNull
    /\ currentRadius = Num(0)
    /\ nmPc = "idle"
    /\ nmRequests = <<>>
    /\ nmIterations = 0
    /\ nmResult = [success |-> FALSE]

\* The fetchMajorRoads calls that are followed in detail.
RoadCallIds == {1, 2}

\* No such call has begun.
RoadsIdle == roadCalls = [k \in RoadCallIds |-> [pc |-> "idle", met |-> "none", ret |-> NotReturned]]

\* The effect may run this many times in the model.
MaxRuns == 3
RunIds == 1..MaxRuns

\* initialState of MapView (the fields the effect touches); error null is "".
initialState == [loading |-> TRUE, error |-> "", facilities |-> <<>>]

\* A run that has not begun.
NoRun == [pc |-> "idle", aborted |-> FALSE, met |-> "none"]

\* No MapView is followed.
MapIdle ==
    /\ mounted = FALSE
    /\ state = initialState
    /\ runs = [k \in RunIds |-> NoRun]
    /\ started = 0
    /\ dispatched = <<>>

\* No numeric function is followed.
NumericIdle ==
    /\ arg = NumericArg("none", <<0, 0>>, <<0, 0>>, FALSE, <<>>, 0, 0)
    /\ ret = NoRet
    /\ done = FALSE

Init ==
    /\ envKey \in KeyValues
    /\ ORS_API_KEY = getApiKey(envKey)
    /\ CallInit
    /\ ComponentInit
    /\ FacilitiesIdle
    /\ NumericIdle
    /\ NearestIdle
    /\ RoadsIdle
    /\ MapIdle

\* The environment variable is changed after the module was loaded.
SetEnv(k) ==
    /\ pc = "idle"
    /\ envKey' = k
    /\ UNCHANGED otherVars
    /\ UNCHANGED <<ORS_API_KEY, pc, start, end, options, server, requests,
                   inFlight, timers, orsResp, osrmResp, result>>

\* calculateRoute is called: from its entry to its first await or its return.
Call(s, e, o0) ==
    LET o == DefaultOptions(o0) IN
    /\ pc = "idle"
    /\ start' = s /\ end' = e /\ options' = o0
    /\ UNCHANGED otherVars
    /\ UNCHANGED <<envKey, ORS_API_KEY>>
    /\ IF InvalidInput(s, e)
       THEN /\ OuterCatch(s, e, o)
            /\ UNCHANGED <<server, requests, inFlight, timers, orsResp, osrmResp>>
       ELSE IF validateApiKey /\ ~ORSSetupThrows(o)
       THEN /\ pc' = "ors_wait"
            /\ requests' = <<0>>
            /\ inFlight' = {0}
            /\ orsResp' = [status |-> "pending", coords |-> <<>>]
            /\ UNCHANGED <<server, timers, osrmResp, result>>
       ELSE /\ orsResp' = orsResp
            /\ EnterOSRM(s, e, o)

\* axios.post settles: the rest of calculateORSRoute and of calculateRoute to the next await.
ORSSettled(resp) ==
    LET o == DefaultOptions(options)
        r == calculateORSRoute(resp) IN
    /\ pc = "ors_wait"
    /\ orsResp' = ORSOutcome(resp)
    /\ UNCHANGED otherVars
    /\ UNCHANGED <<envKey, ORS_API_KEY, start, end, options>>
    /\ IF ORSAccepted(r)
       THEN /\ pc' = "resolved"
            /\ result' = [r EXCEPT !.routingMethod = "ors"]
            /\ inFlight' = {}
            /\ UNCHANGED <<server, requests, timers, osrmResp>>
       ELSE EnterOSRM(start, end, o)

\* fetch rejects (network error): the catch of the loop, then the next server.
\* clearTimeout is not reached.
FetchRejected ==
    /\ pc = "osrm_fetch"
    /\ UNCHANGED otherVars
    /\ UNCHANGED <<envKey, ORS_API_KEY, start, end, options, orsResp>>
    /\ TryServer(NextServer(server), start, end, DefaultOptions(options),
                 [osrmResp EXCEPT ![server] = OSRMResp("failed")], timers)

\* fetch resolves with a response: clearTimeout, then response.ok.
FetchResolved(httpOk) ==
    /\ pc = "osrm_fetch"
    /\ UNCHANGED otherVars
    /\ UNCHANGED <<envKey, ORS_API_KEY, start, end, options, orsResp>>
    /\ IF httpOk
       THEN /\ pc' = "osrm_json"
            /\ timers' = timers \ {server}
            /\ UNCHANGED <<server, requests, inFlight, osrmResp, result>>
       ELSE TryServer(NextServer(server), start, end, DefaultOptions(options),
                      [osrmResp EXCEPT ![server] = OSRMResp("failed")],
                      timers \ {server})

\* response.json() settles.
JsonSettled(body) ==
    /\ pc = "osrm_json"
    /\ UNCHANGED otherVars
    /\ UNCHANGED <<envKey, ORS_API_KEY, start, end, options, orsResp>>
    /\ IF body.kind # "jsonRejected" /\ OSRMUsable(body)
       THEN /\ pc' = "resolved"
            /\ result' = [OSRMResult(body) EXCEPT !.routingMethod = "osrm"]
            /\ inFlight' = {}
            /\ osrmResp' = [osrmResp EXCEPT ![server] = OSRMOutcome(body)]
            /\ UNCHANGED <<server, requests, timers>>
       ELSE TryServer(NextServer(server), start, end, DefaultOptions(options),
                      [osrmResp EXCEPT ![server] = OSRMOutcome(body)], timers)

\* An armed timer fires after DEFAULT_TIMEOUT: controller.abort().  The fetch of
\* that iteration, when still pending, rejects; otherwise nothing happens.
TimerFires(i) ==
    /\ i \in timers
    /\ UNCHANGED otherVars
    /\ UNCHANGED <<envKey, ORS_API_KEY, start, end, options, orsResp>>
    /\ IF pc = "osrm_fetch" /\ server = i
       THEN TryServer(NextServer(server), start, end, DefaultOptions(options),
                      [osrmResp EXCEPT ![server] = OSRMResp("failed")], timers \ {i})
       ELSE /\ timers' = timers \ {i}
            /\ UNCHANGED <<pc, server, requests, inFlight, osrmResp, result>>

Next ==
    \/ \E k \in KeyValues : SetEnv(k)
    \/ \E s \in StartInputs, e \in EndInputs, o \in OptionInputs : Call(s, e, o)
    \/ \E resp \in ORSResponses : ORSSettled(resp)
    \/ FetchRejected
    \/ \E ok \in BOOLEAN : FetchResolved(ok)
    \/ \E body \in JsonBodies : JsonSettled(body)
    \/ \E i \in 1..NumServers : TimerFires(i)

Spec == Init /\ [][Next]_vars

TypeOK ==
    /\ envKey \in KeyValues
    /\ ORS_API_KEY \in KeyValues
    /\ pc \in {"idle", "ors_wait", "osrm_fetch", "osrm_json", "resolved", "rejected"}
    /\ start \in StartInputs
    /\ end \in EndInputs \cup {JsNull}
    /\ options \in OptionInputs
    /\ server \in 0..NumServers
    /\ inFlight \subseteq 0..NumServers
    /\ timers \subseteq 1..NumServers

\* ------------------------------------------- calls of the component

\* One calculateRoute call as a value: c is the call's local state, and each
\* operator gives the local state after the code between two awaits.

\* calculateRoute, the outer catch
CallOuterCatch(c) ==
    LET o == DefaultOptions(c.options) IN
    IF o.kind = "null"
    THEN [c EXCEPT !.pc = "rejected"]
    ELSE [c EXCEPT !.pc = "resolved",
                   !.result = createDirectRoute(c.start, c.end, o.isMountainous)]

\* calculateRoute, "fall back to direct route"
CallDirectFallback(c) ==
    LET o == DefaultOptions(c.options) IN
    IF o.kind = "null"
    THEN CallOuterCatch(c)
    ELSE [c EXCEPT !.pc = "resolved",
                   !.result = [createDirectRoute(c.start, c.end, o.isMountainous)
                                  EXCEPT !.routingMethod = "direct"]]

\* calculateOSRMRoute: the loop reaches server i
CallTryServer(c, i, resp, tms) ==
    IF i <= NumServers
    THEN [c EXCEPT !.pc = "osrm_fetch", !.server = i, !.timers = tms \cup {i},
                   !.osrmResp = [resp EXCEPT ![i] = OSRMResp("pending")]]
    ELSE CallDirectFallback([c EXCEPT !.timers = tms, !.osrmResp = resp])

\* calculateRoute, "Try OSRM as a fallback"
CallEnterOSRM(c) ==
    IF OSRMSetupThrows(DefaultOptions(c.options))
    THEN CallDirectFallback(c)
    ELSE CallTryServer(c, 1, c.osrmResp, c.timers)

\* calculateRoute from its entry to its first await or its return
CallEntry(c) ==
    IF InvalidInput(c.start, c.end)
    THEN CallOuterCatch(c)
    ELSE IF validateApiKey /\ ~ORSSetupThrows(DefaultOptions(c.options))
    THEN [c EXCEPT !.pc = "ors_wait", !.orsResp = [status |-> "pending", coords |-> <<>>]]
    ELSE CallEnterOSRM(c)

\* axios.post settles
CallORSSettled(c, resp) ==
    LET r == calculateORSRoute(resp)
        c1 == [c EXCEPT !.orsResp = ORSOutcome(resp)] IN
    IF ORSAccepted(r)
    THEN [c1 EXCEPT !.pc = "resolved", !.result = [r EXCEPT !.routingMethod = "ors"]]
    ELSE CallEnterOSRM(c1)

\* fetch rejects, or the abort timer of the pending fetch fires
CallFetchRejected(c, tms) ==
    CallTryServer(c, NextServer(c.server),
                  [c.osrmResp EXCEPT ![c.server] = OSRMResp("failed")], tms)

\* fetch resolves with a response
CallFetchResolved(c, httpOk) ==
    IF httpOk
    THEN [c EXCEPT !.pc = "osrm_json", !.timers = c.timers \ {c.server}]
    ELSE CallFetchRejected(c, c.timers \ {c.server})

\* response.json() settles
CallJsonSettled(c, body) ==
    IF body.kind # "jsonRejected" /\ OSRMUsable(body)
    THEN [c EXCEPT !.pc = "resolved",
                   !.result = [OSRMResult(body) EXCEPT !.routingMethod = "osrm"],
                   !.osrmResp = [c.osrmResp EXCEPT ![c.server] = OSRMOutcome(body)]]
    ELSE CallTryServer(c, NextServer(c.server),
                       [c.osrmResp EXCEPT ![c.server] = OSRMOutcome(body)], c.timers)

\* Mutation of CacheAfterRouteStep: calculateRoute stores the roads it used.
CacheAfterRouteStepWrites(d) == FeatureCollection(<<>>)

\* cachedRoadData after a stretch of calculateRoute: the function holds no
\* assignment to it.
CacheAfterRouteStep(d) == d

\* handleRouteCalculation after its await, for a call in local state c: the
\* try after the await, the catch, the finally.  ui is the state before.
\* (map.fitBounds acts on the map only.)
AfterAwait(c, ui) ==
    IF c.pc = "resolved"
    THEN [ui EXCEPT !.selectedRoute = [set |-> TRUE, data |-> c.result],
                    !.routeDetails = [set |-> TRUE, facility |-> c.facility],
                    !.loading = FALSE]
    ELSE IF c.pc = "rejected"
    THEN [ui EXCEPT !.error = "failed", !.loading = FALSE]
    ELSE ui

\* The state of the component as a record.
UiNow ==
    [loading |-> loading, error |-> error, selectedRoute |-> selectedRoute,
     routeDetails |-> routeDetails]

\* The component's state becomes ui.
SetUi(ui) ==
    /\ loading' = ui.loading
    /\ error' = ui.error
    /\ selectedRoute' = ui.selectedRoute
    /\ routeDetails' = ui.routeDetails

\* The call k of the component moves to local state c; when that settles its
\* promise, handleRouteCalculation goes on in the same turn.
StepCall(k, c) ==
    /\ calls' = [calls EXCEPT ![k] = c]
    /\ SetUi(AfterAwait(c, UiNow))
    /\ cachedRoadData' = CacheAfterRouteStep(cachedRoadData)
    /\ UNCHANGED <<envKey, ORS_API_KEY, callVars, facilityVars, laterVars, selectedPoint, targetFacility, roadsPc>>

\* handleRouteCalculation(facility) with selectedPoint p, up to its await.
handleRouteCalculation(p, f) ==
    IF p = JsNull
    THEN /\ error' = "noStart"
         /\ UNCHANGED <<calls, loading, selectedRoute, routeDetails, cachedRoadData>>
    ELSE \E k \in CallIds :
            /\ calls[k].pc = "idle"
            /\ \A j \in CallIds : j < k => calls[j].pc # "idle"
            /\ LET c == CallEntry([NoCall EXCEPT !.start = p, !.end = FacilityLatLng(f),
                                                 !.facility = f]) IN
               /\ calls' = [calls EXCEPT ![k] = c]
               /\ SetUi(AfterAwait(c, [UiNow EXCEPT !.loading = TRUE, !.error = "null"]))
               /\ cachedRoadData' = CacheAfterRouteStep(cachedRoadData)

\* The list of facilities with its route buttons is rendered.
ButtonsRendered == ~loading /\ ~routeDetails.set /\ selectedPoint # JsNull

\* The route button of facility f is clicked.
ClickFacility(f) ==
    /\ ButtonsRendered
    /\ handleRouteCalculation(selectedPoint, f)
    /\ UNCHANGED <<envKey, ORS_API_KEY, callVars, facilityVars, laterVars, selectedPoint, targetFacility, roadsPc>>

\* The parent passes new props; the effect on [selectedPoint, targetFacility]
\* starts a route calculation when both are set.
PropsChanged(p, f) ==
    /\ <<p, f>> # <<selectedPoint, targetFacility>>
    /\ selectedPoint' = p
    /\ targetFacility' = f
    /\ IF p # JsNull /\ f # NoFacility
       THEN handleRouteCalculation(p, f)
       ELSE UNCHANGED <<calls, loading, error, selectedRoute, routeDetails, cachedRoadData>>
    /\ UNCHANGED <<envKey, ORS_API_KEY, callVars, facilityVars, laterVars, roadsPc>>

\* clearRoute: the button is rendered with the route details.
clearRoute ==
    /\ ~loading /\ routeDetails.set
    /\ selectedRoute' = NoRoute
    /\ routeDetails' = NoDetails
    /\ UNCHANGED <<envKey, ORS_API_KEY, callVars, facilityVars, laterVars, selectedPoint, targetFacility, calls,
                   loading, error, roadsPc, cachedRoadData>>

\* The environment's steps of call k.
ORSSettledAt(k, resp) ==
    /\ calls[k].pc = "ors_wait"
    /\ StepCall(k, CallORSSettled(calls[k], resp))

FetchRejectedAt(k) ==
    /\ calls[k].pc = "osrm_fetch"
    /\ StepCall(k, CallFetchRejected(calls[k], calls[k].timers))

FetchResolvedAt(k, httpOk) ==
    /\ calls[k].pc = "osrm_fetch"
    /\ StepCall(k, CallFetchResolved(calls[k], httpOk))

JsonSettledAt(k, body) ==
    /\ calls[k].pc = "osrm_json"
    /\ StepCall(k, CallJsonSettled(calls[k], body))

TimerFiresAt(k, i) ==
    /\ i \in calls[k].timers
    /\ IF calls[k].pc = "osrm_fetch" /\ calls[k].server = i
       THEN StepCall(k, CallFetchRejected(calls[k], calls[k].timers \ {i}))
       ELSE StepCall(k, [calls[k] EXCEPT !.timers = calls[k].timers \ {i}])

\* fetchMajorRoads, an export of the module, is called: up to its fetch.
fetchMajorRoads ==
    /\ roadsPc = "idle"
    /\ roadsPc' = "fetch"
    /\ UNCHANGED <<envKey, ORS_API_KEY, callVars, facilityVars, laterVars, selectedPoint, targetFacility, calls,
                   loading, error, selectedRoute, routeDetails, cachedRoadData>>

\* The Overpass fetch settles: rejected, a response that is not ok, or one that is.
RoadsFetchSettled(out) ==
    /\ roadsPc = "fetch"
    /\ roadsPc' = (CASE out = "rejected" -> "idle"
                     [] out = "notOk" -> "text"
                     [] OTHER -> "json")
    /\ UNCHANGED <<envKey, ORS_API_KEY, callVars, facilityVars, laterVars, selectedPoint, targetFacility, calls,
                   loading, error, selectedRoute, routeDetails, cachedRoadData>>

\* response.text() settles: the error is thrown and caught.
RoadsTextSettled ==
    /\ roadsPc = "text"
    /\ roadsPc' = "idle"
    /\ UNCHANGED <<envKey, ORS_API_KEY, callVars, facilityVars, laterVars, selectedPoint, targetFacility, calls,
                   loading, error, selectedRoute, routeDetails, cachedRoadData>>

\* response.json() settles: rejected, no elements, or elements, which are
\* converted and cached.
RoadsJsonSettled(body) ==
    /\ roadsPc = "json"
    /\ roadsPc' = "idle"
    /\ cachedRoadData' = (IF body = "elements" THEN OSMToGeoJSON(TwoRoads) ELSE cachedRoadData)
    /\ UNCHANGED <<envKey, ORS_API_KEY, callVars, facilityVars, laterVars, selectedPoint, targetFacility, calls,
                   loading, error, selectedRoute, routeDetails>>

NextOverlap ==
    \/ \E f \in Facilities : ClickFacility(f)
    \/ \E p \in {JsNull, MapPoint}, f \in Facilities \cup {NoFacility} : PropsChanged(p, f)
    \/ clearRoute
    \/ \E k \in CallIds, resp \in CallORSResponses : ORSSettledAt(k, resp)
    \/ \E k \in CallIds : FetchRejectedAt(k)
    \/ \E k \in CallIds, ok \in BOOLEAN : FetchResolvedAt(k, ok)
    \/ \E k \in CallIds, body \in CallJsonBodies : JsonSettledAt(k, body)
    \/ \E k \in CallIds, i \in 1..NumServers : TimerFiresAt(k, i)
    \/ fetchMajorRoads
    \/ \E out \in {"rejected", "notOk", "ok"} : RoadsFetchSettled(out)
    \/ RoadsTextSettled
    \/ \E body \in {"rejected", "empty", "elements"} : RoadsJsonSettled(body)

SpecOverlap == Init /\ [][NextOverlap]_vars

\* ------------------------------------- one findNearestFacilities call

InitFacilities ==
    /\ envKey = "undefined"
    /\ ORS_API_KEY = getApiKey(envKey)
    /\ CallInit
    /\ ComponentInit
    /\ NumericIdle
    /\ NearestIdle
    /\ RoadsIdle
    /\ MapIdle
    /\ point \in PointInputs
    /\ facilities \in FacilityLists
    /\ fnOptions \in FacilityOptionInputs
    /\ fnPc = "ready"
    /\ results = <<>>
    /\ facilitiesAfter = facilities

\* findNearestFacilities(point, facilities, options) is called and returns.
CallFindNearestFacilities ==
    /\ fnPc = "ready"
    /\ fnPc' = "returned"
    /\ results' \in findNearestFacilities(point, facilities, fnOptions)
    /\ facilitiesAfter' = InputAfterCall(point, facilities)
    /\ UNCHANGED <<envKey, ORS_API_KEY, callVars, overlapVars, laterVars, point, facilities, fnOptions>>

NextFacilities == CallFindNearestFacilities

SpecFacilities == InitFacilities /\ [][NextFacilities]_vars

\* --------------------------------------- one call of a numeric function

InitNumeric ==
    /\ envKey = "undefined"
    /\ ORS_API_KEY = getApiKey(envKey)
    /\ CallInit
    /\ ComponentInit
    /\ FacilitiesIdle
    /\ arg \in NumericCalls
    /\ ret = NoRet
    /\ done = FALSE
    /\ NearestIdle
    /\ RoadsIdle
    /\ MapIdle

\* What a numeric call leaves alone.
NumericFrame ==
    /\ done' = TRUE
    /\ UNCHANGED <<envKey, ORS_API_KEY, callVars, overlapVars, facilityVars, arg, nearestVars, roadsVars, mapVars>>

\* calculateDistance(lat1, lon1, lat2, lon2) is called.
CallCalculateDistance ==
    /\ ~done /\ arg.fn = "calculateDistance"
    /\ ret' = [NoRet EXCEPT !.metres = haversine(arg.a[1], arg.a[2], arg.b[1], arg.b[2])]
    /\ NumericFrame

\* createDirectRoute(start, end, isMountainous) is called with valid coordinates.
CallCreateDirectRoute ==
    /\ ~done /\ arg.fn = "createDirectRoute"
    /\ LET d == DirectDistance(arg.a, arg.b) IN
       ret' = [NoRet EXCEPT !.route = <<arg.a, arg.b>>, !.distance = d,
                            !.duration = DirectDuration(d, arg.isMountainous)]
    /\ NumericFrame

\* toORSFormat(p) is called, and fromORSFormat on what it returned.
CallFormats ==
    /\ ~done /\ arg.fn = "formats"
    /\ ret' = [NoRet EXCEPT !.ors = toORSFormat(arg.a),
                            !.back = fromORSFormat(toORSFormat(arg.a))]
    /\ NumericFrame

\* calculateORSRoute reads a well-formed response.
CallCalculateORSRoute ==
    /\ ~done /\ arg.fn = "calculateORSRoute"
    /\ ret' = [NoRet EXCEPT !.route = SwapAll(arg.coords),
                            !.distance = ORSDistance(arg.segDistance),
                            !.duration = ORSDuration(arg.segDuration)]
    /\ NumericFrame

NextNumeric ==
    \/ CallCalculateDistance
    \/ CallCreateDirectRoute
    \/ CallFormats
    \/ CallCalculateORSRoute

SpecNumeric == InitNumeric /\ [][NextNumeric]_vars

\* ------------------------------------- one call of findNearestMajorRoad

\* The loop may be entered this many times in the model.
MaxIterations == 16

\* const maxRadius = 20000
maxRadius == 20000

\* initialRadius = 1000
DefaultInitialRadius == 1000

\* The initialRadius arguments: absent, numbers on both sides of 0 and of
\* maxRadius, and NaN.
InitialRadiusInputs ==
    { [def |-> FALSE, v |-> Num(0)] }
    \cup { [def |-> TRUE, v |-> Num(n)] : n \in {-1000, 0, 1, 1000, 5000, 20000, 20001} }
    \cup { [def |-> TRUE, v |-> NaN] }

\* The first value of currentRadius.
InitialRadiusOf(r) == IF r.def THEN r.v ELSE Num(DefaultInitialRadius)

\* while (currentRadius <= maxRadius); a comparison with NaN is false.
LoopCondition(r) == r.finite /\ r.v <= maxRadius

\* currentRadius *= 2
Doubled(r) == IF r.finite THEN Num(r.v * 2) ELSE r

\* What the Overpass server may answer with: no elements property, an empty
\* list, nodes only, a way with one known node, a way with two.
OverpassBodies == {"noElements", "empty", "nodesOnly", "shortWay", "road"}

\* if (data.elements && data.elements.length > 0) { ... if (closestPoint)
ClosestPointFound(body) == body = "road"

InitNearest ==
    /\ envKey = "undefined"
    /\ ORS_API_KEY = getApiKey(envKey)
    /\ CallInit
    /\ ComponentInit
    /\ FacilitiesIdle
    /\ NumericIdle
    /\ RoadsIdle
    /\ MapIdle
    /\ nmPoint \in {JsNull, Arr(<<Num(0), Num(1)>>)}
    /\ \E r \in InitialRadiusInputs : currentRadius = InitialRadiusOf(r)
    /\ nmPc = "loop"
    /\ nmRequests = <<>>
    /\ nmIterations = 0
    /\ nmResult = [success |-> FALSE]

\* What a step of findNearestMajorRoad leaves alone.
NearestFrame ==
    UNCHANGED <<envKey, ORS_API_KEY, callVars, overlapVars, facilityVars, numericVars, roadsVars, nmPoint, mapVars>>

\* The loop condition is false: return { success: false }.
NearestLoopExit ==
    /\ nmPc = "loop"
    /\ ~LoopCondition(currentRadius)
    /\ nmPc' = "returned"
    /\ nmResult' = [success |-> FALSE]
    /\ UNCHANGED <<currentRadius, nmRequests, nmIterations>>
    /\ NearestFrame

\* The loop body is entered.  Building the query reads point[0], which throws
\* for a null point: the catch doubles the radius.  Otherwise the request is
\* issued.
NearestLoopBody ==
    /\ nmPc = "loop"
    /\ LoopCondition(currentRadius)
    /\ nmIterations < MaxIterations
    /\ nmIterations' = nmIterations + 1
    /\ IF nmPoint = JsNull
       THEN /\ currentRadius' = Doubled(currentRadius)
            /\ UNCHANGED <<nmPc, nmRequests>>
       ELSE /\ nmRequests' = Append(nmRequests, currentRadius.v)
            /\ nmPc' = "fetch"
            /\ UNCHANGED currentRadius
    /\ UNCHANGED nmResult
    /\ NearestFrame

\* The fetch settles: rejected, or a response that is not ok (both end in the
\* catch, which doubles the radius), or a response that is ok.
NearestFetchSettled(out) ==
    /\ nmPc = "fetch"
    /\ IF out = "ok"
       THEN nmPc' = "json" /\ UNCHANGED currentRadius
       ELSE nmPc' = "loop" /\ currentRadius' = Doubled(currentRadius)
    /\ UNCHANGED <<nmRequests, nmIterations, nmResult>>
    /\ NearestFrame

\* response.json() rejects: the catch doubles the radius.
NearestJsonRejected ==
    /\ nmPc = "json"
    /\ nmPc' = "loop"
    /\ currentRadius' = Doubled(currentRadius)
    /\ UNCHANGED <<nmRequests, nmIterations, nmResult>>
    /\ NearestFrame

\* response.json() resolves: a closest point is returned, or the radius doubles.
NearestJsonResolved(body) ==
    /\ nmPc = "json"
    /\ IF ClosestPointFound(body)
       THEN /\ nmPc' = "returned"
            /\ nmResult' = [success |-> TRUE]
            /\ UNCHANGED currentRadius
       ELSE /\ nmPc' = "loop"
            /\ currentRadius' = Doubled(currentRadius)
            /\ UNCHANGED nmResult
    /\ UNCHANGED <<nmRequests, nmIterations>>
    /\ NearestFrame

NextNearest ==
    \/ NearestLoopExit
    \/ NearestLoopBody
    \/ \E out \in {"rejected", "notOk", "ok"} : NearestFetchSettled(out)
    \/ NearestJsonRejected
    \/ \E body \in OverpassBodies : NearestJsonResolved(body)

SpecNearest == InitNearest /\ [][NextNearest]_vars

\* ------------------------------------------- calls of fetchMajorRoads

InitRoads ==
    /\ envKey = "undefined"
    /\ ORS_API_KEY = getApiKey(envKey)
    /\ CallInit
    /\ ComponentInit
    /\ FacilitiesIdle
    /\ NumericIdle
    /\ NearestIdle
    /\ RoadsIdle
    /\ MapIdle

\* What a step of a fetchMajorRoads call leaves alone, the cache apart.
RoadsFrame ==
    UNCHANGED <<envKey, ORS_API_KEY, callVars, facilityVars, numericVars, nearestVars, mapVars,
                selectedPoint, targetFacility, calls, loading, error,
                selectedRoute, routeDetails, roadsPc>>

\* Call k settles in the catch, having met failure m.
RoadsFail(k, m) ==
    /\ roadCalls' = [roadCalls EXCEPT ![k] = [pc |-> "returned", met |-> m, ret |-> RoadsCatch]]
    /\ cachedRoadData' = CacheAfterFailure(cachedRoadData)

\* fetchMajorRoads(bounds) is called: up to its fetch.
RoadsCall(k) ==
    /\ roadCalls[k].pc \in {"idle", "returned"}
    /\ roadCalls' = [roadCalls EXCEPT ![k] = [pc |-> "fetch", met |-> "none", ret |-> NotReturned]]
    /\ UNCHANGED cachedRoadData
    /\ RoadsFrame

\* The fetch of call k rejects: the catch returns an empty collection.
RoadsFetchRejected(k) ==
    /\ roadCalls[k].pc = "fetch"
    /\ RoadsFail(k, "fetchRejected")
    /\ RoadsFrame

\* The fetch of call k resolves with a response that is ok or not.
RoadsFetchResolved(k, ok) ==
    /\ roadCalls[k].pc = "fetch"
    /\ roadCalls' = [roadCalls EXCEPT ![k].pc = IF ok THEN "json" ELSE "text"]
    /\ UNCHANGED cachedRoadData
    /\ RoadsFrame

\* response.text() of a response that is not ok settles, resolved or
\* rejected: either way an error reaches the catch.
RoadsTextSettledAt(k) ==
    /\ roadCalls[k].pc = "text"
    /\ RoadsFail(k, "notOk")
    /\ RoadsFrame

\* response.json() rejects.
RoadsJsonRejected(k) ==
    /\ roadCalls[k].pc = "json"
    /\ RoadsFail(k, "jsonRejected")
    /\ RoadsFrame

\* response.json() resolves with data: no elements, a conversion that
\* throws, or the geojson, which is cached and returned.
RoadsJsonResolved(k, data) ==
    /\ roadCalls[k].pc = "json"
    /\ IF ~data.hasElements \/ Len(data.elements) = 0
       THEN /\ roadCalls' = [roadCalls EXCEPT ![k] =
                 [pc |-> "returned", met |-> "noElements",
                  ret |-> RoadsReturn(FALSE, FeatureCollection(<<>>))]]
            /\ cachedRoadData' = CacheAfterFailure(cachedRoadData)
       ELSE IF ConversionThrows(data.elements)
       THEN RoadsFail(k, "conversionThrew")
       ELSE /\ roadCalls' = [roadCalls EXCEPT ![k] =
                 [pc |-> "returned", met |-> "elements",
                  ret |-> RoadsReturn(FALSE, OSMToGeoJSON(data.elements))]]
            /\ cachedRoadData' = OSMToGeoJSON(data.elements)
    /\ RoadsFrame

NextRoads ==
    \/ \E k \in RoadCallIds : RoadsCall(k)
    \/ \E k \in RoadCallIds : RoadsFetchRejected(k)
    \/ \E k \in RoadCallIds, ok \in BOOLEAN : RoadsFetchResolved(k, ok)
    \/ \E k \in RoadCallIds : RoadsTextSettledAt(k)
    \/ \E k \in RoadCallIds : RoadsJsonRejected(k)
    \/ \E k \in RoadCallIds, data \in RoadAnswers : RoadsJsonResolved(k, data)

SpecRoads == InitRoads /\ [][NextRoads]_vars

\* ------------------------------------------------------------ MapView

\* The actions of the reducer that loadData dispatches; the payload of
\* SET_LOADING is held in flag, of SET_ERROR in text, of SET_FACILITIES in list.
MapAction(type, flag, text, list) == [type |-> type, flag |-> flag, text |-> text, list |-> list]
SetLoading(b) == MapAction("SET_LOADING", b, "", <<>>)
SetError(e) == MapAction("SET_ERROR", FALSE, e, <<>>)
SetFacilities(fs) == MapAction("SET_FACILITIES", FALSE, "", fs)

\* mapReducer(state, action)
mapReducer(st, action) ==
    CASE action.type = "SET_LOADING" -> [st EXCEPT !.loading = action.flag]
      [] action.type = "SET_ERROR" -> [st EXCEPT !.error = action.text, !.loading = FALSE]
      [] action.type = "SET_FACILITIES" -> [st EXCEPT !.facilities = action.list]
      [] OTHER -> st

\* The state after the actions of as have been dispatched in order.
RECURSIVE Reduce(_, _)
Reduce(st, as) == IF as = <<>> THEN st ELSE Reduce(mapReducer(st, Head(as)), Tail(as))

\* The dispatches of run k, as entries of the log.
LogOf(k, as) == [i \in 1..Len(as) |-> [run |-> k, action |-> as[i]]]

\* What fetchHealthcareFacilities meets: its fetch rejects, the response is
\* not ok, json() rejects, the answer has no elements, or it has facilities.
FetchOutcomes == {"rejected", "notOk", "jsonRejected", "noElements", "facilities"}

\* Facilities as the service returns them; one of them has no numeric lat.
FacilityData == << [id |-> 1, valid |-> TRUE], [id |-> 2, valid |-> FALSE], [id |-> 3, valid |-> TRUE] >>

\* What fetchHealthcareFacilities resolves with: its catch and its empty
\* answer return a fallback list (the default facilities in one version of
\* the service, [] in the other); it never rejects and does not read the signal.
FallbackLists == { <<>>, << [id |-> 9, valid |-> TRUE] >> }
ServiceResults(outcome) == IF outcome = "facilities" THEN {FacilityData} ELSE FallbackLists

\* facilitiesData.filter(facility => isValid)
RECURSIVE validFacilities(_)
validFacilities(fs) ==
    IF fs = <<>> THEN <<>>
    ELSE (IF Head(fs).valid THEN <<Head(fs)>> ELSE <<>>) \o validFacilities(Tail(fs))

\* Mutation of SignalAborted: the signal is never seen as aborted.
SignalAbortedNever(r) == FALSE

\* signal.aborted, for the signal of run r.
SignalAborted(r) == r.aborted

\* What loadData dispatches once the service has resolved with data: nothing
\* when the signal is aborted (return, and the finally skips SET_LOADING),
\* else SET_FACILITIES and, in the finally, SET_LOADING false.
AfterFetch(r, data) ==
    IF SignalAborted(r) THEN <<>>
    ELSE << SetFacilities(validFacilities(data)), SetLoading(FALSE) >>

\* The cleanup of the effect: abortControllerRef.current.abort().
Cleanup(rs, k) == IF k = 0 THEN rs ELSE [rs EXCEPT ![k].aborted = TRUE]

InitMapView ==
    /\ envKey = "undefined"
    /\ ORS_API_KEY = getApiKey(envKey)
    /\ CallInit
    /\ ComponentInit
    /\ FacilitiesIdle
    /\ NumericIdle
    /\ NearestIdle
    /\ RoadsIdle
    /\ MapIdle

\* What a step of MapView leaves alone.
MapFrame ==
    UNCHANGED <<envKey, ORS_API_KEY, callVars, overlapVars, facilityVars,
                numericVars, nearestVars, roadsVars>>

\* loadData of run k up to its await: a new controller, SET_LOADING true,
\* SET_ERROR null, the call of fetchHealthcareFacilities.
loadData(rs, k) ==
    LET as == << SetLoading(TRUE), SetError("") >> IN
    /\ runs' = [rs EXCEPT ![k] = [pc |-> "fetch", aborted |-> FALSE, met |-> "none"]]
    /\ started' = k
    /\ state' = Reduce(state, as)
    /\ dispatched' = dispatched \o LogOf(k, as)

\* The component mounts: the effect runs for the first time.
Mount ==
    /\ ~mounted /\ started = 0
    /\ mounted' = TRUE
    /\ loadData(runs, 1)
    /\ MapFrame

\* selectedRegion changes: the cleanup of the last run, then the effect again.
RegionChanged ==
    /\ mounted /\ started < MaxRuns
    /\ loadData(Cleanup(runs, started), started + 1)
    /\ UNCHANGED mounted
    /\ MapFrame

\* The component unmounts: the cleanup of the last run.
Unmount ==
    /\ mounted
    /\ mounted' = FALSE
    /\ runs' = Cleanup(runs, started)
    /\ UNCHANGED <<state, started, dispatched>>
    /\ MapFrame

\* fetchHealthcareFacilities of run k settles, having met outcome, and
\* loadData runs to its end.
FacilitiesFetchSettled(k, outcome, data) ==
    /\ runs[k].pc = "fetch"
    /\ data \in ServiceResults(outcome)
    /\ LET as == AfterFetch(runs[k], data) IN
       /\ state' = Reduce(state, as)
       /\ dispatched' = dispatched \o LogOf(k, as)
    /\ runs' = [runs EXCEPT ![k].pc = "done", ![k].met = outcome]
    /\ UNCHANGED <<mounted, started>>
    /\ MapFrame

NextMapView ==
    \/ Mount
    \/ RegionChanged
    \/ Unmount
    \/ \E k \in RunIds, outcome \in FetchOutcomes, data \in FallbackLists \cup {FacilityData} :
          FacilitiesFetchSettled(k, outcome, data)

SpecMapView == InitMapView /\ [][NextMapView]_vars

\* ------------------------------------------------------------- claims

Range(q) == { q[k] : k \in 1..Len(q) }

\* A two-element array of numbers, as the claims word it.
IsNumberPair(c) ==
    /\ c.kind = "array"
    /\ Len(c.elems) = 2
    /\ \A k \in 1..2 : c.elems[k].type = "number"

ValidCoordinates == IsNumberPair(start) /\ IsNumberPair(end)

\* A key that enables ORS: present and not the placeholder.
KeyUsable(k) == k \notin {"undefined", "", "your_api_key_here"}


\* route is the response's coordinates with the two components of each swapped.
IsSwapOf(route, coords) ==
    /\ Len(route) = Len(coords)
    /\ \A k \in 1..Len(coords) : route[k][1] = coords[k][2] /\ route[k][2] = coords[k][1]

\* The order in which a call may issue its requests.
ExpectedOrder ==
    IF KeyUsable(ORS_API_KEY)
    THEN <<0>> \o [k \in 1..NumServers |-> k]
    ELSE [k \in 1..NumServers |-> k]

IsPrefix(p, q) == Len(p) <= Len(q) /\ \A k \in 1..Len(p) : p[k] = q[k]

RequestFailed(r) ==
    IF r = 0 THEN orsResp.status = "failed" ELSE osrmResp[r].status = "failed"

\* C1: the promise of calculateRoute is never rejected, whatever start, end,
\* options and the providers' answers are.
C1_NeverRejects == pc # "rejected"

\* C2: a result has success true exactly when start and end are both
\* two-element arrays of numbers, whatever the providers answered.
C2_SuccessIffValidCoordinates ==
    pc = "resolved" => (result.success <=> ValidCoordinates)

C2_Witness ==
    /\ pc = "resolved"
    /\ ValidCoordinates
    /\ orsResp.status = "failed"
    /\ \A i \in 1..NumServers : osrmResp[i].status = "failed"
    /\ \E k \in 1..2 : ~start.elems[k].finite
    /\ result.success

\* C3: when ORS was skipped or failed and every OSRM server failed, the result
\* is the direct route: routingMethod 'direct', directRoute true, route = [start, end].
C3_DirectWhenAllProvidersFail ==
    ( /\ pc = "resolved"
      /\ orsResp.status \in {"none", "failed"}
      /\ \A i \in 1..NumServers : osrmResp[i].status = "failed" )
    => /\ result.routingMethod = "direct"
       /\ result.directRoute
       /\ result.hasRoute
       /\ Len(result.route) = 2
       /\ result.route[1] = start.elems
       /\ result.route[2] = end.elems

C3_Witness ==
    /\ pc = "resolved"
    /\ orsResp.status = "failed"
    /\ \A i \in 1..NumServers : osrmResp[i].status = "failed"
    /\ start # end
    /\ result.routingMethod = "direct"

\* C4: a call with invalid coordinates returns success false, a populated
\* error and routingMethod 'direct'.
C4_InvalidCoordinatesFail ==
    (pc = "resolved" /\ ~ValidCoordinates)
    => /\ ~result.success
       /\ result.error
       /\ result.routingMethod = "direct"

C4_Witness ==
    /\ pc = "resolved"
    /\ start = JsNull
    /\ end = Arr(<<Num(1)>>)
    /\ ~result.success
    /\ result.error

\* C5: the requests of a call are issued one after the other in the fixed
\* order ORS (valid key), OSRM servers in list order; a request is issued only
\* after the one before it has finished and failed; at most one is in flight,
\* and none is when the call has returned.
C5_SequentialInPriorityOrder ==
    /\ Cardinality(inFlight) <= 1
    /\ IsPrefix(requests, ExpectedOrder)
    /\ \A k \in 1..Len(requests) - 1 : RequestFailed(requests[k])
    /\ inFlight \subseteq (IF requests = <<>> THEN {} ELSE {requests[Len(requests)]})
    /\ pc \in {"resolved", "rejected"} => inFlight = {}

C5_Witness ==
    /\ Len(requests) = NumServers + 1
    /\ inFlight = {NumServers}
    /\ pc = "osrm_json"

\* C6: when the key is valid and ORS answers with a well-formed route, the
\* result is that route tagged 'ors' and no OSRM server was requested.
C6_ORSSuccessShortCircuits ==
    orsResp.status = "ok"
    => /\ pc = "resolved"
       /\ result.success
       /\ result.routingMethod = "ors"
       /\ IsSwapOf(result.route, orsResp.coords)
       /\ requests = <<0>>
       /\ \A i \in 1..NumServers : osrmResp[i].status = "none"

C6_Witness ==
    /\ orsResp.status = "ok"
    /\ Len(orsResp.coords) = MaxRouteLen
    /\ KeyUsable(ORS_API_KEY)
    /\ result.routingMethod = "ors"

\* C7: when ORS was skipped or failed and some OSRM server answered with a
\* well-formed route, the result is tagged 'osrm' and carries the route of the
\* first such server; the servers before it failed and none after it is contacted.
C7_FirstOSRMSuccessWins ==
    \A i \in 1..NumServers :
        osrmResp[i].status = "ok"
        => /\ pc = "resolved"
           /\ result.success
           /\ result.routingMethod = "osrm"
           /\ IsSwapOf(result.route, osrmResp[i].coords)
           /\ orsResp.status \in {"none", "failed"}
           /\ \A j \in 1..(i - 1) : osrmResp[j].status = "failed"
           /\ \A j \in (i + 1)..NumServers :
                  j \notin Range(requests) /\ osrmResp[j].status = "none"

C7_Witness ==
    /\ orsResp.status = "failed"
    /\ osrmResp[1].status = "failed"
    /\ osrmResp[NumServers].status = "ok"
    /\ Len(osrmResp[NumServers].coords) = MaxRouteLen
    /\ result.routingMethod = "osrm"

\* C8: when the key is absent from the environment or is the placeholder at
\* the time calculateRoute is called, the call issues no ORS request.
C8_NoORSRequestWithoutEnvKey ==
    (pc # "idle" /\ ~KeyUsable(envKey)) => 0 \notin Range(requests)

\* C9: every result with success true has a route of at least 2 points that
\* starts at the request's start and ends at the request's end.
C9_SuccessRouteJoinsEndpoints ==
    (pc = "resolved" /\ result.success)
    => /\ Len(result.route) >= 2
       /\ result.route[1] = start.elems
       /\ result.route[Len(result.route)] = end.elems

\* No request is issued twice in one call.
AtMostOnce ==
    \A j, k \in 1..Len(requests) : requests[j] = requests[k] => j = k

C11_PendingAttemptHasAbortTimer ==
    pc \in {"osrm_fetch", "osrm_json"} => server \in timers

\* Every component of start and end is a finite number.
FiniteCoordinates ==
    /\ ValidCoordinates
    /\ \A k \in 1..2 : start.elems[k].finite /\ end.elems[k].finite

\* C12: a pair holding a non-finite number is invalid input: no result with
\* success true is computed from it.
C12_NonFiniteIsInvalid ==
    (pc = "resolved" /\ result.success) => FiniteCoordinates

\* C13: in every result, directRoute true implies a route of exactly two
\* points and routingMethod 'direct'.
C13_DirectRouteShape ==
    (pc = "resolved" /\ result.directRoute)
    => /\ result.hasRoute
       /\ Len(result.route) = 2
       /\ result.routingMethod = "direct"

C13_Witness ==
    /\ pc = "resolved"
    /\ result.directRoute
    /\ result.isMountainous
    /\ Len(requests) = NumServers

OwnResult(c) ==
    IF c.orsResp.status = "ok"
    THEN c.result.routingMethod = "ors" /\ IsSwapOf(c.result.route, c.orsResp.coords)
    ELSE IF \E i \in 1..NumServers : c.osrmResp[i].status = "ok"
    THEN /\ c.result.routingMethod = "osrm"
         /\ \E i \in 1..NumServers :
                c.osrmResp[i].status = "ok" /\ IsSwapOf(c.result.route, c.osrmResp[i].coords)
    ELSE /\ c.result.routingMethod = "direct"
         /\ c.result.route = <<c.start.elems, c.end.elems>>

\* C15: a step of a calculateRoute call changes the local state of that call
\* only and leaves cachedRoadData as it is, and the result of every call that
\* has resolved is determined by its own arguments and its own responses,
\* however the calls and the road fetch interleave.
C15_CallsIndependent ==
    [][ calls' # calls
        => /\ cachedRoadData' = cachedRoadData
           /\ Cardinality({k \in CallIds : calls'[k] # calls[k]}) = 1
           /\ \A k \in CallIds : calls'[k].pc = "resolved" => OwnResult(calls'[k]) ]_vars

C15_Witness ==
    /\ calls[1].pc = "osrm_json"
    /\ calls[2].pc = "resolved"
    /\ calls[2].result.routingMethod = "ors"
    /\ calls[1].facility # calls[2].facility
    /\ cachedRoadData = OSMToGeoJSON(TwoRoads)

\* The distance of input facility f from the point, and whether f passes the
\* radius and type filters of the call.
DistanceOf(f) == calculateDistance(point[1], point[2], f.lat, f.lng)
Qualifies(f) ==
    /\ DistanceOf(f) <= MaxDistanceOf(fnOptions)
    /\ fnOptions.filterByType # "null" => f.type = fnOptions.filterByType

\* The input facilities, and the ids of those returned.
InputFacilities == { facilities[k] : k \in 1..Len(facilities) }
ReturnedIds == { results[k].id : k \in 1..Len(results) }

\* The index of the facility with id i in the facilities argument.
InputIndex(i) == CHOOSE k \in 1..Len(facilities) : facilities[k].id = i

\* C16: every facility returned lies within maxDistance (default 20,
\* inclusive) of the point and has the type of filterByType when one is given,
\* and at most limit (default 10) facilities are returned.
C16_WithinRadiusTypeAndLimit ==
    fnPc = "returned"
    => /\ \A k \in 1..Len(results) :
              /\ results[k].distance.def
              /\ results[k].distance.v <= MaxDistanceOf(fnOptions)
              /\ fnOptions.filterByType # "null" => results[k].type = fnOptions.filterByType
       /\ Len(results) <= LimitOf(fnOptions)

C16_Witness ==
    /\ fnPc = "returned"
    /\ fnOptions.filterByType = "hospital"
    /\ \E f \in InputFacilities : f.type = "clinic" /\ DistanceOf(f) <= MaxDistanceOf(fnOptions)
    /\ fnOptions.limit.def
    /\ Len(results) = fnOptions.limit.v
    /\ Cardinality({f \in InputFacilities : Qualifies(f)}) > Len(results)
    /\ \E k \in 1..Len(results) : results[k].distance.v = MaxDistanceOf(fnOptions)

\* C17: with sortBy 'distance' (the default) the result is in ascending order
\* of distance, and no qualifying facility that was left out is strictly
\* nearer than a returned one.
C17_AscendingAndNearest ==
    (fnPc = "returned" /\ SortByOf(fnOptions) = "distance")
    => /\ \A j, k \in 1..Len(results) :
              j < k => results[j].distance.v <= results[k].distance.v
       /\ \A f \in InputFacilities :
              (Qualifies(f) /\ f.id \notin ReturnedIds)
              => \A k \in 1..Len(results) : ~(DistanceOf(f) < results[k].distance.v)

C17_Witness ==
    /\ fnPc = "returned"
    /\ fnOptions.sortBy = "undefined"
    /\ Len(results) = 2
    /\ results[1].distance.v < results[2].distance.v
    /\ InputIndex(results[2].id) < InputIndex(results[1].id)
    /\ \E f \in InputFacilities :
          Qualifies(f) /\ f.id \notin ReturnedIds /\ DistanceOf(f) > results[2].distance.v

\* C18: with sortBy 'distance', two returned facilities at equal distance
\* from the point are in their input order.
C18_TiesKeepInputOrder ==
    (fnPc = "returned" /\ SortByOf(fnOptions) = "distance")
    => \A j, k \in 1..Len(results) :
          (j < k /\ results[j].distance.v = results[k].distance.v)
          => InputIndex(results[j].id) < InputIndex(results[k].id)

C18_Witness ==
    /\ fnPc = "returned"
    /\ SortByOf(fnOptions) = "distance"
    /\ Len(results) = 3
    /\ results[1].distance.v = results[2].distance.v
    /\ results[1].id = 2
    /\ InputIndex(results[3].id) = 1

\* The emergency flag of a facility is set.
Flagged(f) == f.emergency = "true"

\* C19: with sortBy 'emergency', every returned facility whose emergency flag
\* is set comes before every one whose flag is not set (false or missing),
\* and facilities of the same status are in ascending order of distance.
C19_EmergencyFirstThenDistance ==
    (fnPc = "returned" /\ fnOptions.sortBy = "emergency")
    => \A j, k \in 1..Len(results) :
          j < k => /\ Flagged(results[k]) => Flagged(results[j])
                   /\ (Flagged(results[j]) <=> Flagged(results[k]))
                      => results[j].distance.v <= results[k].distance.v

\* C20: after the call the facilities argument has the same length and order
\* and the same objects with the same properties: the distance is added to
\* copies only.
C20_ArgumentsNotModified ==
    fnPc = "returned"
    => /\ facilitiesAfter = facilities
       /\ \A k \in 1..Len(facilitiesAfter) : ~facilitiesAfter[k].distance.def

C20_Witness ==
    /\ fnPc = "returned"
    /\ Len(results) = 2
    /\ Len(facilities) = 3
    /\ results[1].id = facilities[3].id
    /\ results[1].distance.def
    /\ ~facilitiesAfter[3].distance.def

\* C25: a call with invalid coordinates issues no request to ORS or to an
\* OSRM server, and what it returns has success false.
C25_InvalidInputIssuesNoRequest ==
    (pc # "idle" /\ ~ValidCoordinates)
    => /\ requests = <<>>
       /\ inFlight = {}
       /\ orsResp.status = "none"
       /\ \A i \in 1..NumServers : osrmResp[i].status = "none"
       /\ pc = "resolved" => ~result.success

C25_Witness ==
    /\ pc = "resolved"
    /\ start = Arr(<<Num(0), Num(1)>>)
    /\ end = Arr(<<Num(0), Num(1), Num(1)>>)
    /\ KeyUsable(ORS_API_KEY)
    /\ ~result.success

\* C26: once calculateOSRMRoute has returned, none of the abort timers it
\* armed is still pending.
C26_NoTimerPendingAfterReturn ==
    pc \in {"resolved", "rejected"} => timers = {}

\* The numeric call has returned from function f.
Returned(f) == done /\ arg.fn = f

\* C21: when ORS succeeds the distance is the segment distance divided by
\* 1000, the duration is the segment duration unchanged, and the i-th route
\* point is the i-th response coordinate with its first two components swapped.
C21_ORSResultFromResponse ==
    Returned("calculateORSRoute")
    => /\ ret.distance.num * 1000 = arg.segDistance * ret.distance.den
       /\ ret.duration.num = arg.segDuration /\ ret.duration.den = 1
       /\ Len(ret.route) = Len(arg.coords)
       /\ \A i \in 1..Len(arg.coords) :
             /\ Len(ret.route[i]) = 2
             /\ ret.route[i][1] = arg.coords[i][2]
             /\ ret.route[i][2] = arg.coords[i][1]

C21_Witness ==
    /\ Returned("calculateORSRoute")
    /\ arg.segDistance = 126192
    /\ arg.segDuration = 10800
    /\ Len(arg.coords) = 3
    /\ ret.route[1] = Shimla

\* C22: createDirectRoute returns the great-circle distance of start and end
\* and the duration distance / avgSpeed * 3600 with avgSpeed 20 when
\* isMountainous is set and 30 otherwise; the mountainous duration is 1.5
\* times the non-mountainous one for the same endpoints.
C22_DirectRouteMetrics ==
    Returned("createDirectRoute")
    => LET metres == haversine(arg.a[1], arg.a[2], arg.b[1], arg.b[2])
           flat == DirectDuration(ret.distance, FALSE)
       IN /\ ret.distance = Rat(metres, 1000)
          /\ ret.duration = Rat(metres * (IF arg.isMountainous THEN 180 ELSE 120), 1000)
          /\ arg.isMountainous => ret.duration = RatMul(RatDiv(flat, 2), 3)
          /\ ~arg.isMountainous => ret.duration = flat

C22_Witness ==
    /\ Returned("createDirectRoute")
    /\ arg.isMountainous
    /\ arg.a = Shimla /\ arg.b = Manali
    /\ ret.distance.num > 0
    /\ LET flat == DirectDuration(ret.distance, FALSE) IN
       ret.duration.num * flat.den * 2 = 3 * flat.num * ret.duration.den

\* C23: fromORSFormat(toORSFormat(p)) is p, and toORSFormat(p) is [lon, lat].
C23_FormatRoundTrip ==
    Returned("formats")
    => /\ ret.back = arg.a
       /\ ret.ors = <<arg.a[2], arg.a[1]>>

C23_Witness ==
    /\ Returned("formats")
    /\ arg.a = Shimla
    /\ ret.ors = <<771734, 311048>>
    /\ ret.back = Shimla

\* C24: calculateDistance is 0 for identical points, the same in both
\* directions, and within 50 m of 126.2 km between Shimla and Manali.
C24_Haversine ==
    Returned("calculateDistance")
    => /\ arg.a = arg.b => ret.metres = 0
       /\ ret.metres = haversine(arg.b[1], arg.b[2], arg.a[1], arg.a[2])
       /\ (arg.a = Shimla /\ arg.b = Manali) => Abs(ret.metres - 126200) <= 50

C24_Witness ==
    /\ Returned("calculateDistance")
    /\ arg.a = Shimla /\ arg.b = Manali
    /\ ret.metres > 126000

\* C27: findNearestMajorRoad terminates for every initialRadius: every pass
\* of the loop that does not return leaves a larger radius, so no radius is
\* requested twice and the radius passes 20000, where the call returns
\* {success: false}.
C27_RadiusGrowsUntilReturn ==
    /\ \A i, j \in 1..Len(nmRequests) : i < j => nmRequests[i] < nmRequests[j]
    /\ nmIterations < MaxIterations
    /\ (nmPc = "returned" /\ currentRadius.finite /\ currentRadius.v > maxRadius)
       => ~nmResult.success

\* The failures a fetchMajorRoads call can meet.
RoadFailures == {"fetchRejected", "notOk", "jsonRejected", "conversionThrew"}

\* C28: fetchMajorRoads never rejects; a call that met a failure returns an
\* empty FeatureCollection and leaves cachedRoadData as it was; cachedRoadData
\* changes only to the geojson that a call which received elements returns;
\* and once set it is never null again.
C28_RoadsNeverRejectCacheKept ==
    [][ /\ \A k \in RoadCallIds :
             /\ roadCalls'[k].ret.settled => ~roadCalls'[k].ret.rejected
             /\ (roadCalls'[k] # roadCalls[k] /\ roadCalls'[k].met \in RoadFailures)
                => /\ roadCalls'[k].ret = RoadsReturn(FALSE, FeatureCollection(<<>>))
                   /\ cachedRoadData' = cachedRoadData
        /\ cachedRoadData' # cachedRoadData
           => \E k \in RoadCallIds :
                 /\ roadCalls[k].pc = "json"
                 /\ roadCalls'[k].pc = "returned"
                 /\ roadCalls'[k].met = "elements"
                 /\ roadCalls'[k].ret.value = cachedRoadData'
                 /\ cachedRoadData'.type = "FeatureCollection"
        /\ cachedRoadData # NoRoadData => cachedRoadData' # NoRoadData ]_vars

C28_Witness ==
    /\ roadCalls[1].met = "elements"
    /\ roadCalls[1].ret.value.features # <<>>
    /\ roadCalls[1].ret.value.features[1].highway = "trunk"
    /\ roadCalls[2].met = "notOk"
    /\ roadCalls[2].ret = RoadsReturn(FALSE, FeatureCollection(<<>>))
    /\ cachedRoadData = roadCalls[1].ret.value

\* C29: while the facility fetch of the current loadData run is pending,
\* state.loading is true.
C29_LoadingWhileFetching ==
    \A k \in RunIds :
        (mounted /\ runs[k].pc = "fetch" /\ ~runs[k].aborted) => state.loading

\* C30: a loadData run whose signal is aborted dispatches nothing and so
\* leaves the state as it is, whatever its fetch met.
C30_AbortedRunDispatchesNothing ==
    [][ \A k \in RunIds :
          (runs[k].aborted /\ runs'[k] # runs[k])
          => /\ state' = state
             /\ \A i \in 1..Len(dispatched') :
                   dispatched'[i].run = k => i <= Len(dispatched) ]_vars

C30_Witness ==
    /\ runs[1].aborted /\ runs[1].pc = "done" /\ runs[1].met = "rejected"
    /\ runs[2].pc = "done" /\ ~runs[2].aborted /\ runs[2].met = "facilities"
    /\ state.facilities = validFacilities(FacilityData)
    /\ Len(dispatched) = 6
    /\ dispatched[6].run = 2

====
